---- MODULE Spec2Model ----
(***************************************************************************)
(* The retrieval pipeline of src/RAG: md_to_vectors.py (build: read the    *)
(* document, split it into chunks, embed them, save index.npz) and         *)
(* rag_chat.py (query: load index.npz, then loop: read a query, embed it,  *)
(* score, take the top 3, join the chunk texts, send the chat request).    *)
(*                                                                         *)
(* Text is a sequence of one-character strings.  Embeddings are vectors    *)
(* of integers of Euclidean norm 5 (fixed point: the unit vector is the    *)
(* tuple divided by 5), so a dot product is 25 times the cosine.  Chunk    *)
(* indices keep Python's 0-based numbering.                                *)
(*                                                                         *)
(* The translation scripts of src/vergeLock are modelled beside it, each   *)
(* under a specification of its own: the translation cache of              *)
(* DeepSeekTranslator.translate_with_deepseek, and the two splitters,      *)
(* DeepSeekTranslator.split_markdown_into_segments and                     *)
(* VergeLockTranslator.smart_split.                                        *)
(***************************************************************************)
EXTENDS Integers, Sequences, FiniteSets, TLC

VARIABLES
    bpc,                \* md_to_vectors.py: position of the script
    text,               \* md_to_vectors.py:7   text
    chunks,             \* md_to_vectors.py:9   chunks
    bembs,              \* md_to_vectors.py:12  embs
    artifact,           \* the file index.npz
    qpc,                \* rag_chat.py: position of the script
    embs,               \* rag_chat.py:7   embs
    texts,              \* rag_chat.py:8   texts
    query,              \* rag_chat.py:18  query
    q_emb,              \* rag_chat.py:22  q_emb
    sims,               \* rag_chat.py:24  sims
    topk,               \* rag_chat.py:25  topk
    retrieved_blocks,   \* rag_chat.py:27  retrieved_blocks
    sent,               \* rag_chat.py:36  the last chat request issued
    qerr,               \* the exception that ended rag_chat.py, if any
    translation_cache,  \* deepseek_translator.py:40   self.translation_cache
    stats,              \* deepseek_translator.py:32   self.stats
    call,               \* the last call of translate_with_deepseek
    content,            \* deepseek_translator.py:42   content
    max_segment_length, \* deepseek_translator.py:42   max_segment_length
    merged_segments,    \* deepseek_translator.py:170  the list returned
    split_text,         \* translate_vergelock.py:57   text
    max_chars,          \* translate_vergelock.py:57   max_chars
    split_chunks        \* translate_vergelock.py:83   the list returned

\* the names of src/vergeLock
toolVars == <<translation_cache, stats, call, content, max_segment_length,
              merged_segments, split_text, max_chars, split_chunks>>

vars == <<bpc, text, chunks, bembs, artifact, qpc, embs, texts, query, q_emb,
          sims, topk, retrieved_blocks, sent, qerr, toolVars>>

buildVars == <<bpc, text, chunks, bembs>>
queryVars == <<qpc, embs, texts, query, q_emb, sims, topk, retrieved_blocks,
               sent, qerr>>

----------------------------------------------------------------------------
(* Bounds of the model *)

\* longest document drawn character by character
MaxDocLen == 4
Min(a, b) == IF a < b THEN a ELSE b

\* a Python name that has not been assigned yet / one bound to the value v
Unset == [set |-> FALSE]
Bound(v) == [set |-> TRUE, val |-> v]

\* index.npz does not exist / index.npz holds the arrays embs and texts
NoFile == [exists |-> FALSE]

----------------------------------------------------------------------------
(* Text *)

Alphabet == {"#", " ", "\n", "a"}

\* str.strip() without arguments removes whitespace
IsSpace(c) == c \in {" ", "\n", "\t"}

RECURSIVE LStrip(_)
LStrip(s) == IF s # <<>> /\ IsSpace(Head(s)) THEN LStrip(Tail(s)) ELSE s

RECURSIVE RStrip(_)
RStrip(s) ==
    IF s # <<>> /\ IsSpace(s[Len(s)]) THEN RStrip(SubSeq(s, 1, Len(s) - 1)) ELSE s

Strip(s) == RStrip(LStrip(s))

\* (?m)^ : the start of the string and the position after every "\n"
AtLineStart(t, p) == p = 1 \/ t[p - 1] = "\n"

\* a pattern that asks for a space after one "#", (?m)^(?=# )
SplitPointsSpaceOnly(t) ==
    {p \in 1..Len(t) :
        AtLineStart(t, p) /\ t[p] = "#" /\ p < Len(t) /\ t[p + 1] = " "}

\* the positions where (?m)^(?=#) matches (it matches the empty string there)
SplitPoints(t) == {p \in 1..Len(t) : AtLineStart(t, p) /\ t[p] = "#"}

\* re.split on empty matches: the pieces between consecutive match positions
ReSplit(t) ==
    LET pts == SplitPoints(t)
        n == Cardinality(pts)
        \* the k-th match position, k in 1..n
        At(k) == CHOOSE p \in pts : Cardinality({q \in pts : q < p}) = k - 1
        From(k) == IF k = 0 THEN 1 ELSE At(k)
        To(k) == IF k = n THEN Len(t) ELSE At(k + 1) - 1
    IN  [k \in 1..(n + 1) |-> SubSeq(t, From(k - 1), To(k - 1))]

MapStrip(ps) == [i \in 1..Len(ps) |-> Strip(ps[i])]

NonEmpty(c) == c # <<>>

\* the comprehension without its filter, [c.strip() for c in re.split(...)]
SegmentKeepBlank(t) == MapStrip(ReSplit(t))

\* [c.strip() for c in re.split(...) if c.strip()]
Segment(t) == SelectSeq(MapStrip(ReSplit(t)), NonEmpty)

\* the documents md_to_vectors.py is run on: every text over Alphabet of at
\* most MaxDocLen characters, and four longer ones
ScenarioHeadings ==
    <<"#", " ", "A", "\n", "t", "e", "x", "t", "1", "\n",
      "#", " ", "B", "\n", "t", "e", "x", "t", "2">>
ScenarioPlain == <<"h", "e", "l", "l", "o", " ", "w", "o", "r", "l", "d">>
\* four sections, so that an index holds more than three chunks
ScenarioFour == <<"#", "\n", "#", "a", "\n", "#", "\n", "#", " ", "a">>

\* one section that holds a horizontal rule between two paragraphs
ScenarioRule == <<"a", "\n", "\n", "-", "-", "-", "\n", "\n", "a">>

Docs ==
    UNION {[1..n -> Alphabet] : n \in 0..MaxDocLen}
        \cup {ScenarioHeadings, ScenarioPlain, ScenarioFour, ScenarioRule}

----------------------------------------------------------------------------
(* Embeddings *)

\* normalize_embeddings=True: every vector has norm 5 (unit norm, scaled)
UnitVecs == {<<5, 0>>, <<3, 4>>, <<0, 5>>}

Dot(u, v) == u[1] * v[1] + u[2] * v[2]

\* model.encode(chunks, ...): one normalized vector per text, in order.  The
\* result for an empty list is np.asarray([]) of shape (0,), where the
\* documented shape is (0, dim): either is an outcome.
EncodeOutcomes(cs) ==
    IF Len(cs) = 0
    THEN {[ndim |-> 1, rows |-> <<>>], [ndim |-> 2, rows |-> <<>>]}
    ELSE {[ndim |-> 2, rows |-> r] : r \in [1..Len(cs) -> UnitVecs]}

\* a provider that breaks its contract: a vector count other than len(chunks)
FaultyEncodeOutcomes(cs) ==
    {[ndim |-> 2, rows |-> r] :
        r \in UNION {[1..m -> UnitVecs] : m \in (0..(Len(cs) + 1)) \ {Len(cs)}}}

----------------------------------------------------------------------------
(* md_to_vectors.py *)

\* line 9
Split ==
    /\ bpc = "split"
    /\ chunks' = Bound(Segment(text))
    /\ bpc' = "encode"
    /\ UNCHANGED <<text, bembs, artifact, queryVars, toolVars>>

\* lines 11-12
Encode ==
    /\ bpc = "encode"
    /\ \E e \in EncodeOutcomes(chunks.val) : bembs' = Bound(e)
    /\ bpc' = "save"
    /\ UNCHANGED <<text, chunks, artifact, queryVars, toolVars>>

\* lines 11-12 with a provider that returns the wrong number of vectors
EncodeFaulty ==
    /\ bpc = "encode"
    /\ \E e \in FaultyEncodeOutcomes(chunks.val) : bembs' = Bound(e)
    /\ bpc' = "save"
    /\ UNCHANGED <<text, chunks, artifact, queryVars, toolVars>>

\* a build that writes the texts in the reverse of the embeddings' order
SavedFileTextsReversed(e, cs) ==
    [exists |-> TRUE, embs |-> e, texts |-> [i \in 1..Len(cs) |-> cs[Len(cs) + 1 - i]]]

\* np.savez("index.npz", embs=embs, texts=np.array(chunks, dtype=object))
SavedFile(e, cs) == [exists |-> TRUE, embs |-> e, texts |-> cs]

\* lines 14-16 and the end of the script, where its names cease to exist
Save ==
    /\ bpc = "save"
    /\ artifact' = SavedFile(bembs.val, chunks.val)
    /\ bpc' = "done"
    /\ text' = <<>>
    /\ chunks' = Unset
    /\ bembs' = Unset
    /\ UNCHANGED <<queryVars, toolVars>>

\* index.npz is changed by something other than md_to_vectors.py (a partial
\* copy, an edit): the last text or the last embedding row is lost
CorruptArtifact ==
    /\ artifact.exists
    /\ qpc = "start"
    /\ \/ /\ Len(artifact.texts) > 0
          /\ artifact' = [artifact EXCEPT
                !.texts = SubSeq(artifact.texts, 1, Len(artifact.texts) - 1)]
       \/ /\ Len(artifact.embs.rows) > 0
          /\ artifact' = [artifact EXCEPT
                !.embs.rows = SubSeq(artifact.embs.rows, 1, Len(artifact.embs.rows) - 1)]
    /\ UNCHANGED <<buildVars, queryVars, toolVars>>

----------------------------------------------------------------------------
(* rag_chat.py *)

\* lines 6-8: np.load raises FileNotFoundError when index.npz is missing
Load ==
    /\ qpc = "start"
    /\ IF artifact.exists
       THEN /\ embs' = Bound(artifact.embs)
            /\ texts' = Bound(artifact.texts)
            /\ qpc' = "loop"
            /\ qerr' = qerr
       ELSE /\ qpc' = "crashed"
            /\ qerr' = "FileNotFoundError"
            /\ UNCHANGED <<embs, texts>>
    /\ UNCHANGED <<buildVars, artifact, query, q_emb, sims, topk,
                   retrieved_blocks, sent, toolVars>>

\* what the user types at the prompt
QueryInputs == {<<" ">>, <<" ", "a", "\n">>}

\* embs @ q_emb: one dot product per row
Sims(e, q) == [i \in 1..Len(e.rows) |-> Dot(e.rows[i], q)]

\* the permutations of 0..n-1 that list s in ascending order
IsAscending(s, p) ==
    /\ {p[i] : i \in 1..Len(p)} = 0..(Len(s) - 1)
    /\ \A i \in 1..(Len(p) - 1) : s[p[i] + 1] <= s[p[i + 1] + 1]

\* sims.argsort(): the default kind is quicksort, which is not stable, so any
\* order of equal scores is an outcome
ArgsortOutcomes(s) ==
    {p \in [1..Len(s) -> 0..(Len(s) - 1)] : IsAscending(s, p)}

\* a[-k:]
LastK(a, k) == SubSeq(a, Len(a) - Min(k, Len(a)) + 1, Len(a))

\* a[::-1]
Reverse(a) == [i \in 1..Len(a) |-> a[Len(a) + 1 - i]]

\* the 3 of sims.argsort()[-3:]
TopK == 3

\* an off-by-one slice, sims.argsort()[-2:][::-1]
TopKOfOffByOne(order) == Reverse(LastK(order, TopK - 1))

\* sims.argsort()[-3:][::-1] for one outcome of argsort
TopKOf(order) == Reverse(LastK(order, TopK))

\* "\n\n---\n\n"
Delimiter == <<"\n", "\n", "-", "-", "-", "\n", "\n">>

\* sep.join(parts)
RECURSIVE Join(_, _)
Join(sep, parts) ==
    IF parts = <<>> THEN <<>>
    ELSE IF Len(parts) = 1 THEN parts[1]
    ELSE parts[1] \o sep \o Join(sep, Tail(parts))

\* texts[i] for i in topk
Picked(ts, tk) == [j \in 1..Len(tk) |-> ts[tk[j] + 1]]

\* lines 29-43: the request handed to client.chat.completions.create
Request(blocks, q) == [context |-> blocks, user |-> q]

\* lines 17-45, one iteration of the loop, but for what it leaves alone.  An
\* exception is not caught anywhere: it ends the script where it is raised,
\* with the names assigned so far.
QueryBody ==
    /\ qpc = "loop"
    /\ \E inp \in QueryInputs :
        LET q == Strip(inp) IN
        /\ query' = Bound(q)
        /\ IF q = <<>>
           THEN \* line 20: continue
                UNCHANGED <<qpc, q_emb, sims, topk, retrieved_blocks, sent, qerr>>
           ELSE \E v \in UnitVecs :
                /\ q_emb' = Bound(v)
                /\ IF embs.val.ndim # 2
                   THEN \* line 24: an array of shape (0,) @ one of shape (dim,)
                        /\ qpc' = "crashed"
                        /\ qerr' = "ValueError"
                        /\ UNCHANGED <<sims, topk, retrieved_blocks, sent>>
                   ELSE LET s == Sims(embs.val, v) IN
                        /\ sims' = Bound(s)
                        /\ \E order \in ArgsortOutcomes(s) :
                            LET tk == TopKOf(order) IN
                            /\ topk' = Bound(tk)
                            /\ IF \E j \in 1..Len(tk) : tk[j] >= Len(texts.val)
                               THEN \* line 27: texts[i] out of range
                                    /\ qpc' = "crashed"
                                    /\ qerr' = "IndexError"
                                    /\ UNCHANGED <<retrieved_blocks, sent>>
                               ELSE LET blocks == Join(Delimiter, Picked(texts.val, tk)) IN
                                    /\ retrieved_blocks' = Bound(blocks)
                                    /\ sent' = Bound(Request(blocks, q))
                                    /\ \E fails \in BOOLEAN :
                                        IF fails
                                        THEN \* line 36: the chat provider fails
                                             qpc' = "crashed" /\ qerr' = "APIError"
                                        ELSE qpc' = "loop" /\ qerr' = qerr
    /\ UNCHANGED <<buildVars, artifact, toolVars>>

\* the same iteration with line 27 rebinding texts to the chunks it picked
QueryRebindsTexts ==
    /\ QueryBody
    /\ embs' = embs
    /\ texts' = IF topk'.set /\ retrieved_blocks' # retrieved_blocks
                THEN Bound(Picked(texts.val, topk'.val))
                ELSE texts

\* lines 17-45: one iteration of the loop; it only reads embs and texts
Query ==
    /\ QueryBody
    /\ UNCHANGED <<embs, texts>>

\* line 18: input() raises EOFError at the end of the input
Quit ==
    /\ qpc = "loop"
    /\ qpc' = "crashed"
    /\ qerr' = "EOFError"
    /\ UNCHANGED <<buildVars, artifact, embs, texts, query, q_emb, sims, topk,
                   retrieved_blocks, sent, toolVars>>

----------------------------------------------------------------------------
(* The state of each script before it runs *)

\* deepseek_translator.py:32-40: DeepSeekTranslator.__init__
TranslatorNew ==
    /\ translation_cache = <<>>
    /\ stats = [total_segments |-> 0, translated_segments |-> 0,
                total_tokens |-> 0, errors |-> 0]
    /\ call = Unset

\* split_markdown_into_segments has not been called
SegmenterIdle ==
    /\ content = <<>>
    /\ max_segment_length = 0
    /\ merged_segments = Unset

\* smart_split has not been called
SmartSplitIdle ==
    /\ split_text = <<>>
    /\ max_chars = 0
    /\ split_chunks = Unset

\* md_to_vectors.py and rag_chat.py have not run
RagIdle ==
    /\ bpc = "off"
    /\ text = <<>>
    /\ chunks = Unset
    /\ bembs = Unset
    /\ artifact = NoFile
    /\ qpc = "off"
    /\ embs = Unset
    /\ texts = Unset
    /\ query = Unset
    /\ q_emb = Unset
    /\ sims = Unset
    /\ topk = Unset
    /\ retrieved_blocks = Unset
    /\ sent = Unset
    /\ qerr = "none"

----------------------------------------------------------------------------
(* Specifications *)

\* md_to_vectors.py has read its document; rag_chat.py has not started
Init ==
    /\ bpc = "split"
    /\ text \in Docs
    /\ chunks = Unset
    /\ bembs = Unset
    /\ artifact = NoFile
    /\ qpc = "start"
    /\ embs = Unset
    /\ texts = Unset
    /\ query = Unset
    /\ q_emb = Unset
    /\ sims = Unset
    /\ topk = Unset
    /\ retrieved_blocks = Unset
    /\ sent = Unset
    /\ qerr = "none"
    /\ TranslatorNew
    /\ SegmenterIdle
    /\ SmartSplitIdle

Next == Split \/ Encode \/ Save \/ Load \/ Query \/ Quit

\* the two scripts with a provider and a file system that behave
Spec == Init /\ [][Next]_vars

NextFaultyProvider == Next \/ EncodeFaulty

\* the two scripts with a provider that may return the wrong number of vectors
SpecFaultyProvider == Init /\ [][NextFaultyProvider]_vars

NextDamagedFile == Next \/ CorruptArtifact

\* the two scripts with an index file that may be damaged between build and load
SpecDamagedFile == Init /\ [][NextDamagedFile]_vars

----------------------------------------------------------------------------
(* Retrieval: rag_chat.py:24-25 *)

\* the number of rows of the loaded index
IndexSize == Len(embs.val.rows)

\* the score of chunk i (0-based) in the last scoring
Score(i) == sims.val[i + 1]

\* C1: retrieve returns the k highest-scoring chunks sorted by descending
\* score, and returned chunks with equal scores appear in ascending order of
\* their original chunk index.
C1_TopKDescendingTiesAscending ==
    topk.set =>
        LET tk == topk.val IN
        /\ \A j \in 1..Len(tk) : \A m \in 1..Len(tk) :
              j < m => Score(tk[j]) >= Score(tk[m])
        /\ \A i \in 0..(IndexSize - 1) : \A j \in 1..Len(tk) :
              (\A m \in 1..Len(tk) : tk[m] # i) => Score(i) <= Score(tk[j])
        /\ \A j \in 1..Len(tk) : \A m \in 1..Len(tk) :
              (j < m /\ Score(tk[j]) = Score(tk[m])) => tk[j] < tk[m]

C2_WitnessTruncated == topk.set /\ IndexSize = 4 /\ Len(topk.val) = 3

\* the exceptions that count as the retrieval step refusing an empty index:
\* the spec's EmptyIndex, and the ValueError that numpy raises at line 24 for
\* an embs of shape (0,), which is how the code can fail there
EmptyIndexFailures == {"EmptyIndex", "ValueError"}

\* C3: when the loaded index holds zero chunks, a query fails with EmptyIndex
\* before a context block is assembled or a chat request is sent; it never
\* yields an empty context.
C3_EmptyIndexQueryFails ==
    (embs.set /\ IndexSize = 0 /\ query.set /\ query.val # <<>>) =>
        /\ qpc = "crashed"
        /\ qerr \in EmptyIndexFailures
        /\ ~retrieved_blocks.set
        /\ ~sent.set

----------------------------------------------------------------------------
(* Segmentation and build: md_to_vectors.py:9-14 *)

IsBlank(t) == \A p \in 1..Len(t) : IsSpace(t[p])

\* C4: an empty or whitespace-only document produces zero chunks, and its
\* build fails with EmptyDocument: no index artifact is written.
C4_BlankDocumentWritesNoIndex ==
    /\ (chunks.set /\ IsBlank(text)) => chunks.val = <<>>
    /\ artifact.exists => artifact.texts # <<>>

\* the position after the run of "#" that starts at p
RECURSIVE HashRunEnd(_, _)
HashRunEnd(t, p) == IF p <= Len(t) /\ t[p] = "#" THEN HashRunEnd(t, p + 1) ELSE p

\* a heading marker begins the line at p: one or more "#" followed by
\* whitespace (the end of the text counts as whitespace, which str.strip()
\* removes from the end of a chunk)
IsHeadingAt(t, p) ==
    /\ AtLineStart(t, p)
    /\ p <= Len(t)
    /\ t[p] = "#"
    /\ HashRunEnd(t, p) > Len(t) \/ IsSpace(t[HashRunEnd(t, p)])

HeadingLines(t) == {p \in 1..Len(t) : IsHeadingAt(t, p)}

\* the last position of the line that starts at p
RECURSIVE LineEnd(_, _)
LineEnd(t, p) == IF p > Len(t) \/ t[p] = "\n" THEN p - 1 ELSE LineEnd(t, p + 1)

\* the line that starts at p, without trailing whitespace
LineAt(t, p) == RStrip(SubSeq(t, p, LineEnd(t, p)))

\* C5: a new chunk starts at every line that begins with a heading marker,
\* and the marker line is the first line of its chunk, never a later line of
\* the preceding one; "# A\ntext1\n# B\ntext2" yields "# A\ntext1" and
\* "# B\ntext2".
C5_ChunkStartsAtEveryHeading ==
    chunks.set =>
        LET cs == chunks.val IN
        /\ \A i \in 1..Len(cs) : HeadingLines(cs[i]) \subseteq {1}
        /\ Cardinality({i \in 1..Len(cs) : IsHeadingAt(cs[i], 1)})
              >= Cardinality(HeadingLines(text))
        /\ \A p \in HeadingLines(text) :
              \E i \in 1..Len(cs) : LineAt(cs[i], 1) = LineAt(text, p)
        /\ text = ScenarioHeadings =>
              cs = << <<"#", " ", "A", "\n", "t", "e", "x", "t", "1">>,
                      <<"#", " ", "B", "\n", "t", "e", "x", "t", "2">> >>

\* C5's case: a document with text before its only heading line has been
\* split in two, and the second chunk begins with the marker
C5_WitnessLeadingTextThenHeading ==
    /\ chunks.set
    /\ Cardinality(HeadingLines(text)) = 1
    /\ ~IsHeadingAt(text, 1)
    /\ Len(chunks.val) = 2
    /\ IsHeadingAt(chunks.val[2], 1)

\* C6: a non-blank document without a heading marker segments into exactly
\* one chunk, the whole trimmed input.
C6_NoHeadingOneChunk ==
    (chunks.set /\ ~IsBlank(text) /\ HeadingLines(text) = {}) =>
        chunks.val = <<Strip(text)>>

\* the characters of t that are not whitespace, in order
NonBlank(t) == SelectSeq(t, LAMBDA c : ~IsSpace(c))

RECURSIVE Concat(_)
Concat(cs) == IF cs = <<>> THEN <<>> ELSE Head(cs) \o Concat(Tail(cs))

\* the first position >= from where c occurs in t, or 0
RECURSIVE FindFrom(_, _, _)
FindFrom(t, c, from) ==
    IF from + Len(c) - 1 > Len(t) THEN 0
    ELSE IF SubSeq(t, from, from + Len(c) - 1) = c THEN from
    ELSE FindFrom(t, c, from + 1)

\* cs occur in t one after the other without overlapping, from `from` on
RECURSIVE OccurInOrder(_, _, _)
OccurInOrder(cs, t, from) ==
    IF cs = <<>> THEN TRUE
    ELSE LET p == FindFrom(t, Head(cs), from) IN
         p # 0 /\ OccurInOrder(Tail(cs), t, p + Len(Head(cs)))

\* C7: the chunks are disjoint spans of the document in document order, each
\* trimmed and not empty, and together they hold the document's non-blank
\* content without loss, duplication or reordering.
C7_ChunksPartitionNonBlankContent ==
    chunks.set =>
        LET cs == chunks.val IN
        /\ \A i \in 1..Len(cs) : cs[i] # <<>> /\ Strip(cs[i]) = cs[i]
        /\ OccurInOrder(cs, text, 1)
        /\ NonBlank(Concat(cs)) = NonBlank(text)

\* C7's case: a document whose spans lose whitespace at both ends and whose
\* two chunks have the same text
C7_WitnessTrimmedDuplicates ==
    /\ chunks.set
    /\ Len(chunks.val) = 2
    /\ chunks.val[1] = chunks.val[2]
    /\ Len(Concat(chunks.val)) < Len(text) - 1

\* C8: build fails when the provider returns a number of vectors other than
\* the number of chunks, so every index it persists has as many embedding
\* rows as chunk texts.
C8_PersistedIndexIsParallel ==
    artifact.exists => Len(artifact.embs.rows) = Len(artifact.texts)

----------------------------------------------------------------------------
(* Load and the query loop: rag_chat.py:6-45 *)

\* C9: load fails when the artifact's text count and embedding-row count
\* disagree, so the query loop is never entered with such an index.
C9_LoopNeverEntersWithMismatch ==
    qpc = "loop" => Len(texts.val) = Len(embs.val.rows)

\* C10: once the index is written and loaded, no query iteration writes it:
\* embs and texts stay what was loaded from the artifact, the artifact stays
\* what build wrote, and build does not run again.
C10_QueryNeverWritesIndex ==
    [][/\ embs.set =>
            /\ embs' = embs
            /\ texts' = texts
            /\ artifact' = artifact
            /\ bpc' = bpc
       /\ embs'.set =>
            /\ embs'.val = artifact'.embs
            /\ texts'.val = artifact'.texts
            /\ bpc' = "done"]_vars

\* C10's case: a query has been answered and a blank one has followed it
C10_WitnessAnsweredThenBlank ==
    /\ qpc = "loop"
    /\ sent.set
    /\ query.set
    /\ query.val = <<>>
    /\ Len(texts.val) = 4

\* s[i:i+len(sep)] == sep
OccursAt(s, sep, i) ==
    i + Len(sep) - 1 <= Len(s) /\ SubSeq(s, i, i + Len(sep) - 1) = sep

\* s.split(sep), scanning from i with the current part starting at start
RECURSIVE SplitFrom(_, _, _, _)
SplitFrom(s, sep, i, start) ==
    IF i > Len(s) THEN <<SubSeq(s, start, Len(s))>>
    ELSE IF OccursAt(s, sep, i)
         THEN <<SubSeq(s, start, i - 1)>>
                  \o SplitFrom(s, sep, i + Len(sep), i + Len(sep))
         ELSE SplitFrom(s, sep, i + 1, start)

SplitOn(s, sep) == SplitFrom(s, sep, 1, 1)

\* C11: the context block is the retrieved chunk texts in rank order, joined
\* by the delimiter, none dropped, merged or reordered; the delimiter is
\* unambiguous: splitting the block on it gives back exactly those texts.
C11_ContextSplitsBackIntoRankedTexts ==
    (retrieved_blocks.set /\ topk.set /\ qerr # "IndexError" /\ Len(topk.val) >= 1) =>
        LET ranked == Picked(texts.val, topk.val) IN
        /\ retrieved_blocks.val = Join(Delimiter, ranked)
        /\ SplitOn(retrieved_blocks.val, Delimiter) = ranked

----------------------------------------------------------------------------
(* deepseek_translator.py: DeepSeekTranslator.translate_with_deepseek *)

\* at most this many provider requests are issued in one run
MaxCalls == 3

\* the texts handed to the translator
TranslatorTexts == {<<"a">>, <<"b">>, <<"a", "b">>}

\* the character codes of the translator's texts
CharCode(c) == IF c = "a" THEN 97 ELSE IF c = "b" THEN 98 ELSE 0

\* deepseek_translator.py:246  hash(text).  Python's str hash is a keyed
\* 64-bit function, fixed within one process; it is modelled by a polynomial
\* hash that no two of the translator's texts share.
RECURSIVE Hash(_)
Hash(t) == IF t = <<>> THEN 0 ELSE Hash(SubSeq(t, 1, Len(t) - 1)) * 31 + CharCode(t[Len(t)])

\* glossary: None, an empty dict, or a dict with one translated term
Glossaries == {Unset, Bound(<<>>), Bound(<<"g">>)}

\* context: None, or the tail of the previous translated segment
Contexts == {Unset, Bound(<<"c">>)}

\* deepseek_translator.py:264-273  what the system prompt carries beyond its
\* fixed text: the glossary if truthy, the context if truthy
SystemPrompt(glossary, context) ==
    [glossary |-> IF glossary.set /\ glossary.val # <<>> THEN glossary.val ELSE <<>>,
     context  |-> IF context.set /\ context.val # <<>> THEN context.val ELSE <<>>]

\* deepseek_translator.py:276-288  the payload posted to the provider
Payload(t, glossary, context) ==
    [system |-> SystemPrompt(glossary, context), user |-> t]

\* the "usage" member of a response body: absent, null, a dict without
\* total_tokens, or a dict with it
Usages ==
    {[kind |-> "absent"], [kind |-> "null"], [kind |-> "empty"],
     [kind |-> "tokens", total_tokens |-> 1]}

\* what the provider may answer (deepseek_translator.py:291-296):
\* requests.post, raise_for_status or json() raises; the body has no
\* 'choices'; or the body holds a translation and some "usage"
ProviderOutcomes ==
    {[kind |-> "raise"], [kind |-> "nochoices"]}
        \cup [kind : {"body"}, content : {<<"A">>, <<"B">>}, usage : Usages]

\* deepseek_translator.py:312  the "[ОШИБКА ПЕРЕВОДА: ...]" text
ErrorText == <<"[", "!", "]">>

\* translation_cache[cache_key] = translated_text
CachePut(cache, key, value) ==
    [k \in DOMAIN cache \cup {key} |-> IF k = key THEN value ELSE cache[k]]

\* stats[field] += n
StatsAdd(st, field, n) == [st EXCEPT ![field] = @ + n]

\* deepseek_translator.py:301-302
\*   if 'usage' in result: stats['total_tokens'] += result['usage'].get('total_tokens', 0)
\* None has no .get: a null usage raises AttributeError
UsageRaises(u) == u.kind = "null"

UsageTokens(u) == IF u.kind = "tokens" THEN u.total_tokens ELSE 0

\* deepseek_translator.py:246-248  the cached branch
TranslateCached(t, glossary, context) ==
    /\ Hash(t) \in DOMAIN translation_cache
    /\ call' = [text |-> t, glossary |-> glossary, context |-> context,
                requested |-> FALSE, payload |-> Unset, response |-> Unset,
                ret_text |-> translation_cache[Hash(t)], ret_info |-> "cached"]
    /\ UNCHANGED <<translation_cache, stats>>

\* deepseek_translator.py:250-312  the provider branch: the try block up to
\* the statement that raises, then the except block
TranslateRequested(t, glossary, context, r) ==
    /\ Hash(t) \notin DOMAIN translation_cache
    /\ stats.total_segments + stats.errors < MaxCalls
    /\ LET counted == StatsAdd(StatsAdd(stats, "total_segments", 1),
                               "translated_segments", 1)
           base == [text |-> t, glossary |-> glossary, context |-> context,
                    requested |-> TRUE,
                    payload |-> Bound(Payload(t, glossary, context)),
                    response |-> Bound(r)]
           failed == [ret_text |-> ErrorText, ret_info |-> "error"]
       IN
       IF r.kind \in {"raise", "nochoices"}
       THEN \* lines 291-296 raise; line 310
            /\ stats' = StatsAdd(stats, "errors", 1)
            /\ translation_cache' = translation_cache
            /\ call' = base @@ failed
       ELSE IF UsageRaises(r.usage)
       THEN \* lines 299-300 have run, line 302 raises; line 310
            /\ stats' = StatsAdd(counted, "errors", 1)
            /\ translation_cache' = translation_cache
            /\ call' = base @@ failed
       ELSE \* lines 299-307
            /\ stats' = StatsAdd(counted, "total_tokens", UsageTokens(r.usage))
            /\ translation_cache' = CachePut(translation_cache, Hash(t), r.content)
            /\ call' = base @@ [ret_text |-> r.content, ret_info |-> "result"]

translate_with_deepseek ==
    /\ \E t \in TranslatorTexts, glossary \in Glossaries, context \in Contexts :
          \/ TranslateCached(t, glossary, context)
          \/ \E r \in ProviderOutcomes : TranslateRequested(t, glossary, context, r)
    /\ UNCHANGED <<buildVars, artifact, queryVars, content, max_segment_length,
                   merged_segments, split_text, max_chars, split_chunks>>

InitTranslator == RagIdle /\ TranslatorNew /\ SegmenterIdle /\ SmartSplitIdle

NextTranslator == translate_with_deepseek

SpecTranslator == InitTranslator /\ [][NextTranslator]_vars

\* C13: the cache is keyed by the raw text only.  Over every call: the cache
\* changes only by gaining the called text's entry from a provider call that
\* succeeded; a failed call leaves the cache as it was and grows the error
\* counter and nothing else; a call with a cached text returns the stored
\* translation, issues no provider request and leaves the statistics as they
\* were, whatever glossary and context it is given.
C13_CacheKeyedByRawTextOnly ==
    [][LET c == call' IN
       /\ translation_cache' # translation_cache =>
            /\ c.requested
            /\ c.ret_info = "result"
            /\ translation_cache' = CachePut(translation_cache, Hash(c.text), c.ret_text)
       /\ c.ret_info = "error" =>
            /\ translation_cache' = translation_cache
            /\ stats' = StatsAdd(stats, "errors", 1)
       /\ Hash(c.text) \in DOMAIN translation_cache =>
            /\ ~c.requested
            /\ c.ret_text = translation_cache[Hash(c.text)]
            /\ stats' = stats
            /\ translation_cache' = translation_cache]_vars

----------------------------------------------------------------------------
(* deepseek_translator.py: DeepSeekTranslator.split_markdown_into_segments *)

\* a document has at most this many lines
MaxLines == 4

\* a max_segment_length small enough for the merge loop to cut
SmallSegmentLength == 4

\* deepseek_translator.py:42  max_segment_length: int = 1500
DefaultSegmentLength == 1500

\* the 20 of for i in range(1, 20): a table takes up to 19 following lines
TableRangeEnd == 20

\* the backtick, which a TLA+ string cannot hold, is written as an apostrophe
Backtick == "'"

\* three backticks
FenceMarker == <<Backtick, Backtick, Backtick>>

\* the lines documents are made of: a heading, a code fence, plain text, an
\* empty line, a table separator and a table row
HeadingLine == <<"#", " ", "h">>
FenceLine == FenceMarker
PlainLine == <<"x">>
EmptyLine == <<>>
SeparatorLine == <<"|", "-", "|">>
RowLine == <<"|", "x", "|">>

LineVocabulary ==
    {HeadingLine, FenceLine, PlainLine, EmptyLine, SeparatorLine, RowLine}

Newline == <<"\n">>

RECURSIVE LinesUpTo(_)
LinesUpTo(n) ==
    IF n = 0 THEN {<<>>}
    ELSE LET shorter == LinesUpTo(n - 1) IN
         shorter \cup {Append(ls, l) : ls \in {x \in shorter : Len(x) = n - 1},
                                       l \in LineVocabulary}

\* the documents handed to the segmenter: 1..MaxLines lines joined by "\n"
Contents == {Join(Newline, ls) : ls \in LinesUpTo(MaxLines) \ {<<>>}}

SegmentLengths == {SmallSegmentLength, DefaultSegmentLength}

\* the number of "#" the line starts with
RECURSIVE LeadingHashes(_)
LeadingHashes(line) ==
    IF line # <<>> /\ Head(line) = "#" THEN 1 + LeadingHashes(Tail(line)) ELSE 0

\* re.match(r'^#{1,6}\s+', line): the six-or-fewer "#" the pattern takes must
\* be followed by whitespace, so the whole run of "#" is 1..6 long
IsHeaderLine(line) ==
    LET h == LeadingHashes(line) IN
    /\ h >= 1
    /\ h <= 6
    /\ h < Len(line)
    /\ IsSpace(line[h + 1])

StartsWith(line, prefix) ==
    Len(line) >= Len(prefix) /\ SubSeq(line, 1, Len(prefix)) = prefix

\* line.strip().startswith(three backticks)
IsFenceLine(line) == StartsWith(Strip(line), FenceMarker)

\* '|' in line
HasPipe(line) == \E i \in 1..Len(line) : line[i] = "|"

AllSpace(cell) == \A i \in 1..Len(cell) : IsSpace(cell[i])

\* the whole of cell matches \s*:?-+:?\s*
IsSeparatorCell(cell) ==
    \E a \in 1..Len(cell), b \in 1..Len(cell) :
        /\ a <= b
        /\ \A i \in a..b : cell[i] = "-"
        /\ LET before == SubSeq(cell, 1, a - 1)
               after == SubSeq(cell, b + 1, Len(cell))
           IN
           /\ \/ AllSpace(before)
              \/ /\ before # <<>>
                 /\ before[Len(before)] = ":"
                 /\ AllSpace(SubSeq(before, 1, Len(before) - 1))
           /\ \/ AllSpace(after)
              \/ /\ after # <<>>
                 /\ Head(after) = ":"
                 /\ AllSpace(Tail(after))

\* '|' in line and re.search(r'\|\s*:?-+:?\s*\|', line)
IsTableLine(line) ==
    /\ HasPipe(line)
    /\ \E i \in 1..Len(line), j \in 1..Len(line) :
          /\ i < j
          /\ line[i] = "|"
          /\ line[j] = "|"
          /\ IsSeparatorCell(SubSeq(line, i + 1, j - 1))

\* lines.index(line): the first place an equal line stands at (1-based here)
IndexOf(lines, line) ==
    CHOOSE i \in 1..Len(lines) :
        lines[i] = line /\ \A j \in 1..(i - 1) : lines[j] # line

\* a segment; code, table and header segments carry no 'header' key, which
\* .get('header') reads as None.  'original' always equals 'content' and
\* 'level' is not read by the splitter: both are left out.
Seg(type, header, c) == [type |-> type, header |-> header, content |-> c]

\* if current_segment: segments.append({'type': 'text', ...})
FlushText(current_segment, current_header) ==
    IF current_segment = <<>> THEN <<>>
    ELSE <<Seg("text", current_header, Join(Newline, current_segment))>>

\* deepseek_translator.py:86-94  the code block read from lines.index(line)
CodeBlock(lines, line) ==
    LET rest == SubSeq(lines, IndexOf(lines, line) + 1, Len(lines))
        closers == {k \in 1..Len(rest) : IsFenceLine(rest[k])}
        n == IF closers = {} THEN Len(rest)
             ELSE CHOOSE k \in closers : \A m \in closers : k <= m
    IN <<line>> \o SubSeq(rest, 1, n)

\* deepseek_translator.py:113-124  the table read from lines.index(line)
TableLines(lines, line) ==
    LET table_index == IndexOf(lines, line)
        reach == Min(TableRangeEnd - 1, Len(lines) - table_index)
        taken == {k \in 0..reach :
                     \A j \in 1..k : HasPipe(lines[table_index + j])}
        n == CHOOSE k \in taken : \A m \in taken : m <= k
    IN <<line>> \o SubSeq(lines, table_index + 1, table_index + n)

\* deepseek_translator.py:53-136  for line in lines, from the i-th line on
RECURSIVE SegmentLoop(_, _, _, _, _)
SegmentLoop(lines, i, segments, current_segment, current_header) ==
    IF i > Len(lines)
    THEN segments \o FlushText(current_segment, current_header)
    ELSE LET line == lines[i]
             flushed == segments \o FlushText(current_segment, current_header)
         IN
         IF IsHeaderLine(line)
         THEN SegmentLoop(lines, i + 1,
                          Append(flushed, Seg("header", Unset, line)),
                          <<>>, Bound(line))
         ELSE IF IsFenceLine(line)
         THEN SegmentLoop(lines, i + 1,
                          Append(flushed, Seg("code", Unset,
                                              Join(Newline, CodeBlock(lines, line)))),
                          <<>>, current_header)
         ELSE IF IsTableLine(line)
         THEN SegmentLoop(lines, i + 1,
                          Append(flushed, Seg("table", Unset,
                                              Join(Newline, TableLines(lines, line)))),
                          <<>>, current_header)
         ELSE SegmentLoop(lines, i + 1, segments,
                          Append(current_segment, line), current_header)

\* deepseek_translator.py:172-189
MergeSegments(segments) ==
    IF Len(segments) = 1 THEN segments[1]
    ELSE Seg("text", segments[1].header,
             Join(<<"\n", "\n">>, [k \in 1..Len(segments) |-> segments[k].content]))

\* if current_merge: merged_segments.append(self._merge_segments(current_merge))
FlushMerge(current_merge) ==
    IF current_merge = <<>> THEN <<>> ELSE <<MergeSegments(current_merge)>>

\* deepseek_translator.py:149-168  for segment in segments, from the i-th on
RECURSIVE MergeLoop(_, _, _, _, _, _)
MergeLoop(segments, limit, i, merged, current_merge, current_length) ==
    IF i > Len(segments) THEN merged \o FlushMerge(current_merge)
    ELSE LET segment == segments[i]
             seg_length == Len(segment.content)
         IN
         IF segment.type \in {"code", "table"}
         THEN MergeLoop(segments, limit, i + 1,
                        Append(merged \o FlushMerge(current_merge), segment),
                        <<>>, IF current_merge = <<>> THEN current_length ELSE 0)
         ELSE IF current_length + seg_length > limit /\ current_merge # <<>>
         THEN MergeLoop(segments, limit, i + 1,
                        merged \o FlushMerge(current_merge),
                        <<segment>>, seg_length)
         ELSE MergeLoop(segments, limit, i + 1, merged,
                        Append(current_merge, segment),
                        current_length + seg_length)

\* deepseek_translator.py:42-170
SplitMarkdownIntoSegments(c, limit) ==
    MergeLoop(SegmentLoop(SplitOn(c, Newline), 1, <<>>, <<>>, Unset),
              limit, 1, <<>>, <<>>, 0)

split_markdown_into_segments ==
    /\ ~merged_segments.set
    /\ merged_segments' = Bound(SplitMarkdownIntoSegments(content, max_segment_length))
    /\ UNCHANGED <<buildVars, artifact, queryVars, translation_cache, stats,
                   call, content, max_segment_length, split_text, max_chars,
                   split_chunks>>

InitSegmenter ==
    /\ RagIdle
    /\ TranslatorNew
    /\ SmartSplitIdle
    /\ content \in Contents
    /\ max_segment_length \in SegmentLengths
    /\ merged_segments = Unset

NextSegmenter == split_markdown_into_segments

SpecSegmenter == InitSegmenter /\ [][NextSegmenter]_vars

\* the lines of all segments, one segment after the other
RECURSIVE SegmentsLines(_)
SegmentsLines(segs) ==
    IF segs = <<>> THEN <<>>
    ELSE SplitOn(Head(segs).content, Newline) \o SegmentsLines(Tail(segs))

\* ls without its empty lines (merging puts an empty line between segments)
RECURSIVE WithoutEmpty(_)
WithoutEmpty(ls) ==
    IF ls = <<>> THEN <<>>
    ELSE IF Head(ls) = <<>> THEN WithoutEmpty(Tail(ls))
    ELSE <<Head(ls)>> \o WithoutEmpty(Tail(ls))

\* C14: the segments partition the document's lines: read one segment after
\* the other, they hold every line of the document exactly once and in
\* document order (empty lines aside), so the lines of a fenced code block
\* stand in that block's segment and nowhere else.
C14_SegmentsPartitionLines ==
    merged_segments.set =>
        WithoutEmpty(SegmentsLines(merged_segments.val))
            = WithoutEmpty(SplitOn(content, Newline))

----------------------------------------------------------------------------
(* translate_vergelock.py: VergeLockTranslator.smart_split *)

\* a text has at most this many lines
MaxSplitLines == 4

\* the small values of max_chars run from 1 to this
MaxSplitChars == 3

\* translate_vergelock.py:57  max_chars=2500
DefaultMaxChars == 2500

\* the lines texts are made of: a section heading, one and two plain
\* characters, an empty line
SplitLineVocabulary == {<<"#", " ">>, <<"b">>, <<"b", "b">>, <<>>}

RECURSIVE SplitLinesUpTo(_)
SplitLinesUpTo(n) ==
    IF n = 0 THEN {<<>>}
    ELSE LET shorter == SplitLinesUpTo(n - 1) IN
         shorter \cup {Append(ls, l) : ls \in {x \in shorter : Len(x) = n - 1},
                                       l \in SplitLineVocabulary}

\* the texts handed to smart_split: 1..MaxSplitLines lines joined by "\n"
SplitTexts == {Join(Newline, ls) : ls \in SplitLinesUpTo(MaxSplitLines) \ {<<>>}}

SplitLimits == (1..MaxSplitChars) \cup {DefaultMaxChars}

\* line.startswith('# ')
IsSectionLine(line) == StartsWith(line, <<"#", " ">>)

\* if current_chunk: chunks.append('\n'.join(current_chunk))
FlushChunk(current_chunk) ==
    IF current_chunk = <<>> THEN <<>> ELSE <<Join(Newline, current_chunk)>>

\* translate_vergelock.py:64-78  for line in lines, from the i-th line on
RECURSIVE SmartSplitLoop(_, _, _, _, _, _)
SmartSplitLoop(lines, limit, i, cs, current_chunk, current_size) ==
    IF i > Len(lines) THEN cs \o FlushChunk(current_chunk)
    ELSE LET line == lines[i]
             line_size == Len(line)
         IN
         IF IsSectionLine(line) /\ current_chunk # <<>>
         THEN SmartSplitLoop(lines, limit, i + 1, cs \o FlushChunk(current_chunk),
                             <<line>>, line_size)
         ELSE IF current_size + line_size > limit /\ current_chunk # <<>>
         THEN SmartSplitLoop(lines, limit, i + 1, cs \o FlushChunk(current_chunk),
                             <<line>>, line_size)
         ELSE SmartSplitLoop(lines, limit, i + 1, cs,
                             Append(current_chunk, line),
                             current_size + line_size + 1)

\* translate_vergelock.py:57-83
SmartSplit(t, limit) == SmartSplitLoop(SplitOn(t, Newline), limit, 1, <<>>, <<>>, 0)

smart_split ==
    /\ ~split_chunks.set
    /\ split_chunks' = Bound(SmartSplit(split_text, max_chars))
    /\ UNCHANGED <<buildVars, artifact, queryVars, translation_cache, stats,
                   call, content, max_segment_length, merged_segments,
                   split_text, max_chars>>

InitSmartSplit ==
    /\ RagIdle
    /\ TranslatorNew
    /\ SegmenterIdle
    /\ split_text \in SplitTexts
    /\ max_chars \in SplitLimits
    /\ split_chunks = Unset

NextSmartSplit == smart_split

SpecSmartSplit == InitSmartSplit /\ [][NextSmartSplit]_vars

\* the number of lines of a chunk
LineCount(chunk) == Len(SplitOn(chunk, Newline))

\* C15: every returned chunk of more than one line is at most max_chars
\* long, newline separators counted, and the chunks joined with a newline
\* are the input text.
C15_ChunksWithinMaxCharsAndRejoin ==
    split_chunks.set =>
        /\ \A k \in 1..Len(split_chunks.val) :
              LineCount(split_chunks.val[k]) > 1 =>
                  Len(split_chunks.val[k]) <= max_chars
        /\ Join(Newline, split_chunks.val) = split_text

====
